---- MODULE Spec2Model ----
(***************************************************************************)
(* State-machine model of the STM32F103 USB peripheral driver (UsbBus,     *)
(* src/src/bus.rs): endpoint allocation, enable/reset, poll, read/write,   *)
(* stall/unstall, suspend/resume and forced reset, together with the       *)
(* register view, the packet-memory arena and the peripheral's event       *)
(* sources that the driver talks to.                                       *)
(***************************************************************************)
EXTENDS Integers, Sequences, FiniteSets, TLC

VARIABLES endpoints, next_free_offset, descrs, max_endpoint, pma, reset_cap,
          istr, cntr, daddr, btable, ep_regs, pin_low, enabled, nalloc,
          in_flight, primask, fg_pc, ret

vars == <<endpoints, next_free_offset, descrs, max_endpoint, pma, reset_cap,
          istr, cntr, daddr, btable, ep_regs, pin_low, enabled, nalloc,
          in_flight, primask, fg_pc, ret>>

\* endpoints, max_endpoint, reset_cap: the fields of UsbBus (reset_cap: the
\* Reset capability is configured).  next_free_offset, descrs, pma: the
\* packet memory, i.e. the arena's bump pointer, the buffer-descriptor table
\* and the bytes the driver has stored.  istr, cntr, daddr, btable, ep_regs:
\* the peripheral's registers.  pin_low: the reset pin is driven low.
\* primask: the CPU has its interrupts disabled.  fg_pc: the operation, or
\* the part of it, that the foreground is executing.  enabled, nalloc,
\* in_flight and ret record the history: enable() has returned, the number
\* of alloc_ep calls made, the IN endpoints holding a written packet that the
\* host has not taken, and the last call with its arguments and result.

----------------------------------------------------------------------------
(* Program constants of the register/packet-memory layer (module regs).    *)

NUM_ENDPOINTS == 8

\* Packet memory: 512 bytes, the buffer-descriptor table at its base holds
\* NUM_ENDPOINTS descriptors of four 16-bit fields each.
PMA_SIZE == 512
DESCR_SIZE == 8

\* The 2-bit hardware encoding of EndpointStatus.
Disabled == 0
Stall == 1
Nak == 2
Valid == 3

None == "None"
EndpointTypes == {"Control", "Isochronous", "Bulk", "Interrupt"}
Indices == 0 .. (NUM_ENDPOINTS - 1)

\* ep_dir as u8: EndpointDirection::Out = 0x00, EndpointDirection::In = 0x80.
DirBit(ep_dir) == IF ep_dir = "In" THEN 128 ELSE 0

----------------------------------------------------------------------------
(* Bounds of the model.                                                    *)

\* Number of alloc_ep calls in the allocation-phase specification SpecAlloc.
MaxAllocCalls == 5

\* Number of alloc_ep calls in the slot-exhaustion specification SpecFill.
MaxFillCalls == 8

----------------------------------------------------------------------------
(* Helpers.                                                                *)

Pow2(n) == 2 ^ n

\* Bit i of the mask m.
Bit(m, i) == (m \div Pow2(i)) % 2

RECURSIVE SumOver(_, _)
SumOver(S, f) ==
    IF S = {} THEN 0
    ELSE LET x == CHOOSE y \in S : TRUE
         IN f[x] + SumOver(S \ {x}, f)

BitXor(a, b) == (a + b) % 2
\* XOR of two 2-bit values.
Xor2(a, b) == 2 * BitXor(a \div 2, b \div 2) + BitXor(a % 2, b % 2)

----------------------------------------------------------------------------
(* Register view (EpReg) and packet-memory arena (PacketMemory).           *)

\* Reset value of an endpoint register.
EpRegReset ==
    [ep_type |-> None, ea |-> 0, stat_rx |-> Disabled, stat_tx |-> Disabled,
     ctr_rx |-> FALSE, ctr_tx |-> FALSE, setup |-> FALSE]

\* The STAT bits toggle when written as 1: the register view writes
\* (current XOR desired), the peripheral XORs that into the field.
set_stat_rx(reg, status) ==
    [reg EXCEPT !.stat_rx = Xor2(@, Xor2(@, status))]

set_stat_tx(reg, status) ==
    [reg EXCEPT !.stat_tx = Xor2(@, Xor2(@, status))]

\* Writes the type and address fields, every other bit kept as it is.
configure(reg, ep_type, ep_addr) ==
    [reg EXCEPT !.ep_type = ep_type, !.ea = ep_addr % 16]

clear_ctr_rx(reg) == [reg EXCEPT !.ctr_rx = FALSE]

clear_ctr_tx(reg) == [reg EXCEPT !.ctr_tx = FALSE]

DescrReset == [addr_tx |-> 0, count_tx |-> 0, addr_rx |-> 0, count_rx |-> 0]

\* PacketMemory::alloc: bump allocation, size rounded up to whole 16-bit words.
\* Result: <<ok, address, next free offset>>.
pm_alloc(free, size) ==
    LET rounded == ((size + 1) \div 2) * 2
    IN IF free + rounded > PMA_SIZE
       THEN [ok |-> FALSE, addr |-> 0, free |-> free]
       ELSE [ok |-> TRUE, addr |-> free, free |-> free + rounded]

\* PacketMemory::write: the packet memory is accessed in 16-bit words, so len
\* bytes stored at addr touch the bytes addr .. addr + 2 * ceil(len / 2) - 1.
\* pma is the set of bytes the driver has stored since construction, each
\* with the endpoint address whose write() stored it last.
pm_touched(addr, len) == addr .. (addr + ((len + 1) \div 2) * 2 - 1)

pm_write(mem, addr, len, by) ==
    {b \in mem : b[1] \notin pm_touched(addr, len)}
        \cup {<<o, by>> : o \in pm_touched(addr, len)}

\* calculate_count_rx: the rounded buffer size and the BL_SIZE/NUM_BLOCK
\* encoding (bits 15..10 of COUNT_RX) for a maximum receive packet size.
calculate_count_rx(size) ==
    IF size <= 62
    THEN LET s == ((size + 1) \div 2) * 2
         IN [ok |-> TRUE, size |-> s, bits |-> (s \div 2) * 1024]
    ELSE IF size <= 1024
    THEN LET s == ((size + 31) \div 32) * 32
         IN [ok |-> TRUE, size |-> s,
             bits |-> (32768 + ((s \div 32) - 1) * 1024) % 65536]
    ELSE [ok |-> FALSE, size |-> 0, bits |-> 0]

\* The capacity in bytes that a COUNT_RX encoding stands for.
DecodeCountRx(bits) ==
    LET num_block == (bits \div 1024) % 32
    IN IF bits >= 32768 THEN (num_block + 1) * 32 ELSE num_block * 2

----------------------------------------------------------------------------
(* Results of driver calls.                                                *)

NoMasks == [ep_out |-> 0, ep_in_complete |-> 0, ep_setup |-> 0]

\* The record of the last call.  op: the call, arg: its address argument (-1
\* when none), res: "Ok" or the error / poll result, val: the value returned
\* with Ok, aux: a second input of the call (buffer length, packet size, line
\* state ...), dir and ty: the direction and type given to alloc_ep.
Ret(op, arg, res, val, aux, masks) ==
    [op |-> op, arg |-> arg, res |-> res, val |-> val, aux |-> aux,
     masks |-> masks, dir |-> "", ty |-> ""]

RetAlloc(ep_dir, requested, ep_type, max_packet_size, res, val) ==
    [op |-> "alloc_ep", arg |-> requested, res |-> res, val |-> val,
     aux |-> max_packet_size, masks |-> NoMasks, dir |-> ep_dir, ty |-> ep_type]

----------------------------------------------------------------------------
(* Construction: UsbBus::usb.                                              *)

Init ==
    /\ endpoints = [i \in Indices |->
                      [ep_type |-> None, out_valid |-> FALSE, in_valid |-> FALSE]]
    /\ next_free_offset = NUM_ENDPOINTS * DESCR_SIZE
    /\ descrs = [i \in Indices |-> DescrReset]
    /\ max_endpoint = 0
    /\ reset_cap = FALSE
    /\ istr = [wkup |-> FALSE, reset |-> FALSE, susp |-> FALSE, ctr |-> FALSE]
    /\ cntr = [pdwn |-> TRUE, fres |-> TRUE, fsusp |-> FALSE, lpmode |-> FALSE]
    /\ daddr = [ef |-> FALSE, add |-> 0]
    /\ btable = 0
    /\ ep_regs = [i \in Indices |-> EpRegReset]
    /\ pma = {}
    /\ pin_low = FALSE
    /\ enabled = FALSE
    /\ nalloc = 0
    /\ in_flight = {}
    /\ primask = FALSE
    /\ fg_pc = "idle"
    /\ ret = Ret("new", -1, "Ok", 0, 0, NoMasks)

----------------------------------------------------------------------------
(* alloc_ep                                                                *)

\* ep_addr.map(|a| (a & !0x80) as usize); requested is -1 for None, else the
\* u8 given as Some(a).
masked_addr(requested) == IF requested = -1 THEN -1 ELSE requested % 128

alloc_start_zero(ep_addr) == IF ep_addr = -1 THEN 0 ELSE ep_addr

\* ep_addr.unwrap_or(1)
alloc_start(ep_addr) == IF ep_addr = -1 THEN 1 ELSE ep_addr

pinned_mismatch_never(ep_addr, index) == FALSE

\* Some(ep_addr) if index != ep_addr
pinned_mismatch(ep_addr, index) == ep_addr # -1 /\ index # ep_addr

type_differs_never(t, ep_type) == FALSE

\* Some(t) if t != ep_type
type_differs(t, ep_type) == t # ep_type

assign_type_always(t, ep_type) == ep_type

\* None => { ep.ep_type = Some(ep_type); }
assign_type(t, ep_type) == IF t = None THEN ep_type ELSE t

\* The search loop of alloc_ep up to the point where a direction is claimed
\* or an error is returned.  ep_addr is the masked requested index or -1.
RECURSIVE alloc_search(_, _, _, _, _)
alloc_search(eps, index, ep_addr, ep_dir, ep_type) ==
    IF pinned_mismatch(ep_addr, index)
    THEN [found |-> FALSE, err |-> "EndpointTaken", index |-> index, eps |-> eps]
    ELSE IF index >= NUM_ENDPOINTS
    THEN [found |-> FALSE, err |-> "EndpointOverflow", index |-> index, eps |-> eps]
    ELSE LET eps1 == [eps EXCEPT ![index].ep_type = assign_type(@, ep_type)]
         IN IF type_differs(eps1[index].ep_type, ep_type)
            THEN alloc_search(eps1, index + 1, ep_addr, ep_dir, ep_type)
            ELSE IF \/ ep_dir = "Out" /\ ~eps1[index].out_valid
                    \/ ep_dir = "In" /\ ~eps1[index].in_valid
            THEN [found |-> TRUE, err |-> "", index |-> index, eps |-> eps1]
            ELSE alloc_search(eps1, index + 1, ep_addr, ep_dir, ep_type)

alloc_ep(ep_dir, requested, ep_type, max_packet_size) ==
    LET ep_addr == masked_addr(requested)
        s == alloc_search(endpoints, alloc_start(ep_addr), ep_addr, ep_dir, ep_type)
        fail(err, eps) ==
            /\ endpoints' = eps
            /\ ret' = RetAlloc(ep_dir, requested, ep_type, max_packet_size, err, 0)
            /\ UNCHANGED <<next_free_offset, descrs>>
    IN /\ IF ~s.found
          THEN fail(s.err, s.eps)
          ELSE IF ep_dir = "Out"
          THEN LET c == calculate_count_rx(max_packet_size)
                   a == pm_alloc(next_free_offset, c.size)
               IN IF ~c.ok \/ ~a.ok
                  THEN fail("EndpointOverflow", s.eps)
                  ELSE /\ next_free_offset' = a.free
                       /\ descrs' = [descrs EXCEPT ![s.index].addr_rx = a.addr,
                                                   ![s.index].count_rx = c.bits]
                       /\ endpoints' = [s.eps EXCEPT ![s.index].out_valid = TRUE]
                       /\ ret' = RetAlloc(ep_dir, requested, ep_type, max_packet_size,
                                          "Ok", s.index + DirBit(ep_dir))
          ELSE LET a == pm_alloc(next_free_offset, max_packet_size)
               IN IF ~a.ok
                  THEN fail("EndpointOverflow", s.eps)
                  ELSE /\ next_free_offset' = a.free
                       /\ descrs' = [descrs EXCEPT ![s.index].addr_tx = a.addr,
                                                   ![s.index].count_tx = 0]
                       /\ endpoints' = [s.eps EXCEPT ![s.index].in_valid = TRUE]
                       /\ ret' = RetAlloc(ep_dir, requested, ep_type, max_packet_size,
                                          "Ok", s.index + DirBit(ep_dir))
       /\ UNCHANGED <<max_endpoint, pma, reset_cap, istr, cntr, daddr, btable,
                      ep_regs, pin_low, enabled, in_flight>>

----------------------------------------------------------------------------
(* enable, reset, set_device_address                                       *)

highest_allocated_first(eps) ==
    LET used == {i \in Indices : eps[i].out_valid \/ eps[i].in_valid}
    IN IF used = {} THEN 0 ELSE CHOOSE i \in used : \A j \in used : i <= j

\* The loop of enable(): the last index with a direction allocated, 0 if none.
highest_allocated(eps) ==
    LET used == {i \in Indices : eps[i].out_valid \/ eps[i].in_valid}
    IN IF used = {} THEN 0 ELSE CHOOSE i \in used : \A j \in used : i >= j

IstrClear == [wkup |-> FALSE, reset |-> FALSE, susp |-> FALSE, ctr |-> FALSE]

enable ==
    /\ max_endpoint' = highest_allocated(endpoints)
    /\ cntr' = [cntr EXCEPT !.pdwn = FALSE, !.fres = FALSE]
    /\ btable' = 0
    /\ istr' = IstrClear
    /\ enabled' = TRUE
    /\ ret' = Ret("enable", -1, "Ok", 0, 0, NoMasks)
    /\ UNCHANGED <<endpoints, next_free_offset, descrs, pma, reset_cap, daddr,
                   ep_regs, pin_low, nalloc, in_flight>>

reset_reg_keep_status(eps, regs, index) ==
    IF eps[index].ep_type = None THEN regs[index]
    ELSE configure(regs[index], eps[index].ep_type, index)

\* The body of the loop of reset() for one endpoint register.
reset_reg(eps, regs, index) ==
    IF eps[index].ep_type = None THEN regs[index]
    ELSE LET r0 == configure(regs[index], eps[index].ep_type, index)
             r1 == IF eps[index].out_valid THEN set_stat_rx(r0, Valid) ELSE r0
         IN IF eps[index].in_valid THEN set_stat_tx(r1, Nak) ELSE r1

reset ==
    /\ istr' = IstrClear
    /\ ep_regs' = [index \in Indices |-> reset_reg(endpoints, ep_regs, index)]
    /\ daddr' = [ef |-> TRUE, add |-> 0]
    /\ ret' = Ret("reset", -1, "Ok", 0, 0, NoMasks)
    /\ UNCHANGED <<endpoints, next_free_offset, descrs, max_endpoint, pma, reset_cap,
                   cntr, btable, pin_low, enabled, nalloc, in_flight>>

\* The ADD field of DADDR is 7 bits wide.
set_device_address(addr) ==
    /\ daddr' = [daddr EXCEPT !.add = addr % 128]
    /\ ret' = Ret("set_device_address", addr, "Ok", 0, 0, NoMasks)
    /\ UNCHANGED <<endpoints, next_free_offset, descrs, max_endpoint, pma, reset_cap,
                   istr, cntr, btable, ep_regs, pin_low, enabled, nalloc, in_flight>>

----------------------------------------------------------------------------
(* poll                                                                    *)

\* The event poll() decodes from the interrupt status it read; dp and dm are
\* the RXDP and RXDM line-state bits of FNR.
wakeup_event_by_dm(dp, dm) == IF ~dm THEN "Resume" ELSE "Suspend"

\* match (fnr.rxdp().bit_is_set(), fnr.rxdm().bit_is_set())
wakeup_event(dp, dm) ==
    IF (~dp /\ ~dm) \/ (~dp /\ dm) THEN "Resume" ELSE "Suspend"

poll_event_reset_first(i, dp, dm) ==
    IF i.reset THEN "Reset"
    ELSE IF i.wkup THEN wakeup_event(dp, dm)
    ELSE IF i.susp THEN "Suspend"
    ELSE IF i.ctr THEN "Data"
    ELSE "None"

poll_event(i, dp, dm) ==
    IF i.wkup THEN wakeup_event(dp, dm)
    ELSE IF i.reset THEN "Reset"
    ELSE IF i.susp THEN "Suspend"
    ELSE IF i.ctr THEN "Data"
    ELSE "None"

poll_istr_clear_all(i) ==
    IF i.wkup \/ i.reset \/ i.susp
    THEN [wkup |-> FALSE, reset |-> FALSE, susp |-> FALSE, ctr |-> FALSE]
    ELSE i

\* The bits of ISTR that poll() clears for the branch it takes.
poll_istr(i) ==
    IF i.wkup THEN [i EXCEPT !.wkup = FALSE]
    ELSE IF i.reset THEN [i EXCEPT !.reset = FALSE]
    ELSE IF i.susp THEN [i EXCEPT !.susp = FALSE]
    ELSE i

\* The three masks accumulated by the scan &ep_regs()[0..=max_endpoint],
\* bit <<= 1 per register.
scan_masks(regs, max) ==
    [ep_out |-> SumOver({k \in 0 .. max : regs[k].ctr_rx},
                        [k \in Indices |-> Pow2(k)]),
     ep_in_complete |-> SumOver({k \in 0 .. max : regs[k].ctr_tx},
                                [k \in Indices |-> Pow2(k)]),
     ep_setup |-> SumOver({k \in 0 .. max : regs[k].ctr_rx /\ regs[k].setup},
                          [k \in Indices |-> Pow2(k)])]

poll(dp, dm) ==
    LET ev == poll_event(istr, dp, dm)
        branch == IF istr.wkup THEN "wkup"
                  ELSE IF istr.reset THEN "reset"
                  ELSE IF istr.susp THEN "susp"
                  ELSE IF istr.ctr THEN "ctr" ELSE "none"
        line == (IF dp THEN 2 ELSE 0) + (IF dm THEN 1 ELSE 0)
    IN /\ istr' = poll_istr(istr)
       /\ IF branch = "ctr"
          THEN /\ ep_regs' = [k \in Indices |->
                                 IF k <= max_endpoint /\ ep_regs[k].ctr_tx
                                 THEN clear_ctr_tx(ep_regs[k]) ELSE ep_regs[k]]
               /\ ret' = Ret("poll", -1, ev, 0, 0, scan_masks(ep_regs, max_endpoint))
          ELSE /\ ep_regs' = ep_regs
               /\ ret' = Ret("poll", -1, ev, 0,
                             IF branch = "wkup" THEN line ELSE 0, NoMasks)
       /\ UNCHANGED <<endpoints, next_free_offset, descrs, max_endpoint, pma, reset_cap,
                      cntr, daddr, btable, pin_low, enabled, nalloc, in_flight>>

----------------------------------------------------------------------------
(* write, read                                                             *)

write_addr_ok_any_dir(ep_addr) == ep_addr % 128 < NUM_ENDPOINTS

\* The address checks of write(): direction bit set, index in range.
write_addr_ok(ep_addr) == ep_addr >= 128 /\ ep_addr % 128 < NUM_ENDPOINTS

read_addr_ok_any_dir(ep) == ep % 128 < NUM_ENDPOINTS

\* The address check of read(): direction bit clear, index in range.
read_addr_ok(ep) == ~(ep >= 128 \/ ep >= NUM_ENDPOINTS)

write_arm_nak(reg) == set_stat_tx(reg, Nak)

write_arm_keep(reg) == reg

\* reg.set_stat_tx(EndpointStatus::Valid)
write_arm(reg) == set_stat_tx(reg, Valid)

\* len is buf.len().
write(ep_addr, len) ==
    LET ep == ep_addr % 128
        result(res, val) == Ret("write", ep_addr, res, val, len, NoMasks)
    IN /\ IF ~write_addr_ok(ep_addr)
          THEN /\ ret' = result("InvalidEndpoint", 0)
               /\ UNCHANGED <<descrs, ep_regs, pma, in_flight>>
          ELSE IF ep_regs[ep].stat_tx = Valid
          THEN /\ ret' = result("Busy", 0)
               /\ UNCHANGED <<descrs, ep_regs, pma, in_flight>>
          ELSE IF ep_regs[ep].stat_tx = Disabled
          THEN /\ ret' = result("InvalidEndpoint", 0)
               /\ UNCHANGED <<descrs, ep_regs, pma, in_flight>>
          ELSE /\ pma' = pm_write(pma, descrs[ep].addr_tx, len, ep_addr)
               /\ descrs' = [descrs EXCEPT ![ep].count_tx = len]
               /\ ep_regs' = [ep_regs EXCEPT ![ep] = write_arm(@)]
               /\ in_flight' = in_flight \cup {ep}
               /\ ret' = result("Ok", len)
       /\ UNCHANGED <<endpoints, next_free_offset, max_endpoint, reset_cap,
                      istr, cntr, daddr, btable, pin_low, enabled, nalloc>>

rx_count_full(count_rx) == count_rx % 1024

read_rearm_keep_flag(reg) == set_stat_rx(reg, Valid)

\* reg.clear_ctr_rx(); reg.set_stat_rx(EndpointStatus::Valid)
read_rearm(reg) == set_stat_rx(clear_ctr_rx(reg), Valid)

\* bd.count_rx.get() & 0x3f
rx_count(count_rx) == count_rx % 64

\* len is buf.len(); packet_mem.read fills the whole buffer it is given.
read(ep, len) ==
    LET result(res, val) == Ret("read", ep, res, val, len, NoMasks)
    IN /\ IF ~read_addr_ok(ep)
          THEN /\ ret' = result("InvalidEndpoint", 0)
               /\ UNCHANGED ep_regs
          ELSE IF ep_regs[ep].stat_rx = Disabled
          THEN /\ ret' = result("InvalidEndpoint", 0)
               /\ UNCHANGED ep_regs
          ELSE IF ~ep_regs[ep].ctr_rx
          THEN /\ ret' = result("NoData", 0)
               /\ UNCHANGED ep_regs
          ELSE IF rx_count(descrs[ep].count_rx) > len
          THEN /\ ret' = result("BufferOverflow", 0)
               /\ UNCHANGED ep_regs
          ELSE /\ ep_regs' = [ep_regs EXCEPT
                                ![ep] = read_rearm(@)]
               /\ ret' = result("Ok", rx_count(descrs[ep].count_rx))
       /\ UNCHANGED <<endpoints, next_free_offset, descrs, max_endpoint, pma, reset_cap,
                      istr, cntr, daddr, btable, pin_low, enabled, nalloc, in_flight>>

----------------------------------------------------------------------------
(* stall, unstall, suspend, resume, force_reset, enable_reset              *)

\* The status field an endpoint address names: STAT_TX with the direction
\* bit set, STAT_RX without.
DirStatus(regs, ep) ==
    IF ep >= 128 THEN regs[ep % 128].stat_tx ELSE regs[ep % 128].stat_rx

\* ep is an address whose index is below NUM_ENDPOINTS (a larger index is an
\* out-of-bounds access of ep_regs(), which aborts the program).
stall(ep) ==
    /\ ep % 128 < NUM_ENDPOINTS
    /\ ep_regs' = IF ep >= 128
                  THEN [ep_regs EXCEPT ![ep % 128] = set_stat_tx(@, Stall)]
                  ELSE [ep_regs EXCEPT ![ep] = set_stat_rx(@, Stall)]
    /\ ret' = Ret("stall", ep, "Ok", 0, DirStatus(ep_regs, ep), NoMasks)
    /\ UNCHANGED <<endpoints, next_free_offset, descrs, max_endpoint, pma, reset_cap,
                   istr, cntr, daddr, btable, pin_low, enabled, nalloc, in_flight>>

unstall_ready_swapped(ep_dir) == IF ep_dir = "In" THEN Valid ELSE Nak

\* The status unstall() gives a stalled direction.
unstall_ready(ep_dir) == IF ep_dir = "In" THEN Nak ELSE Valid

unstall(ep) ==
    /\ ep % 128 < NUM_ENDPOINTS
    /\ ep_regs' =
         IF ep >= 128
         THEN IF ep_regs[ep % 128].stat_tx = Stall
              THEN [ep_regs EXCEPT ![ep % 128] = set_stat_tx(@, unstall_ready("In"))]
              ELSE ep_regs
         ELSE IF ep_regs[ep].stat_rx = Stall
              THEN [ep_regs EXCEPT ![ep] = set_stat_rx(@, unstall_ready("Out"))]
              ELSE ep_regs
    /\ ret' = Ret("unstall", ep, "Ok", 0, DirStatus(ep_regs, ep), NoMasks)
    /\ UNCHANGED <<endpoints, next_free_offset, descrs, max_endpoint, pma, reset_cap,
                   istr, cntr, daddr, btable, pin_low, enabled, nalloc, in_flight>>

suspend ==
    /\ cntr' = [cntr EXCEPT !.fsusp = TRUE, !.lpmode = TRUE]
    /\ ret' = Ret("suspend", -1, "Ok", 0, 0, NoMasks)
    /\ UNCHANGED <<endpoints, next_free_offset, descrs, max_endpoint, pma, reset_cap,
                   istr, daddr, btable, ep_regs, pin_low, enabled, nalloc, in_flight>>

resume ==
    /\ cntr' = [cntr EXCEPT !.fsusp = FALSE, !.lpmode = FALSE]
    /\ ret' = Ret("resume", -1, "Ok", 0, 0, NoMasks)
    /\ UNCHANGED <<endpoints, next_free_offset, descrs, max_endpoint, pma, reset_cap,
                   istr, daddr, btable, ep_regs, pin_low, enabled, nalloc, in_flight>>

force_reset_leave_pdwn(c, pdwn) == c

\* self.regs.cntr.modify(|_, w| w.pdwn().bit(pdwn))
force_reset_restore(c, pdwn) == [c EXCEPT !.pdwn = pdwn]

force_reset ==
    /\ IF reset_cap
       THEN LET pdwn == cntr.pdwn
                c1 == [cntr EXCEPT !.pdwn = TRUE]
            IN /\ pin_low' = TRUE
               /\ cntr' = force_reset_restore(c1, pdwn)
               /\ ret' = Ret("force_reset", -1, "Ok", 0, 0, NoMasks)
       ELSE /\ ret' = Ret("force_reset", -1, "Unsupported", 0, 0, NoMasks)
            /\ UNCHANGED <<pin_low, cntr>>
    /\ UNCHANGED <<endpoints, next_free_offset, descrs, max_endpoint, pma, reset_cap,
                   istr, daddr, btable, ep_regs, enabled, nalloc, in_flight>>

enable_reset ==
    /\ reset_cap' = TRUE
    /\ ret' = Ret("enable_reset", -1, "Ok", 0, 0, NoMasks)
    /\ UNCHANGED <<endpoints, next_free_offset, descrs, max_endpoint, pma, istr,
                   cntr, daddr, btable, ep_regs, pin_low, enabled, nalloc, in_flight>>

----------------------------------------------------------------------------
(* The peripheral: what the hardware does to the registers and the packet  *)
(* memory between driver calls, once it is powered.                        *)

\* A bus event latches its bit of ISTR.
HwInterrupt(b) ==
    /\ ~cntr.pdwn
    /\ istr' = [istr EXCEPT ![b] = TRUE]
    /\ ret' = Ret("hw", -1, b, 0, 0, NoMasks)
    /\ UNCHANGED <<endpoints, next_free_offset, descrs, max_endpoint, pma, reset_cap,
                   cntr, daddr, btable, ep_regs, pin_low, enabled, nalloc, in_flight>>

\* A packet of n bytes arrives for endpoint register i whose receive status
\* is Valid: the low ten bits of COUNT_RX take the byte count, CTR_RX (and
\* SETUP for a SETUP packet) is set and the status falls back to Nak.  The
\* packet's bytes land in the receive buffer; pma does not follow them, no
\* driver operation depends on what a buffer holds.
HwReceive(i, n, is_setup) ==
    /\ ~cntr.pdwn
    /\ ep_regs[i].stat_rx = Valid
    /\ n <= DecodeCountRx(descrs[i].count_rx)
    /\ is_setup => ep_regs[i].ep_type = "Control"
    /\ descrs' = [descrs EXCEPT ![i].count_rx = (@ \div 1024) * 1024 + n]
    /\ ep_regs' = [ep_regs EXCEPT ![i].ctr_rx = TRUE, ![i].setup = is_setup,
                                  ![i].stat_rx = Nak]
    /\ istr' = [istr EXCEPT !.ctr = TRUE]
    /\ ret' = Ret("hw", i, "rx", n, 0, NoMasks)
    /\ UNCHANGED <<endpoints, next_free_offset, max_endpoint, pma, reset_cap,
                   cntr, daddr, btable, pin_low, enabled, nalloc, in_flight>>

\* The host takes the packet armed on endpoint register i: CTR_TX is set and
\* the transmit status falls back to Nak.
HwTransmit(i) ==
    /\ ~cntr.pdwn
    /\ ep_regs[i].stat_tx = Valid
    /\ ep_regs' = [ep_regs EXCEPT ![i].ctr_tx = TRUE, ![i].stat_tx = Nak]
    /\ istr' = [istr EXCEPT !.ctr = TRUE]
    /\ in_flight' = in_flight \ {i}
    /\ ret' = Ret("hw", i + 128, "tx", 0, 0, NoMasks)
    /\ UNCHANGED <<endpoints, next_free_offset, descrs, max_endpoint, pma, reset_cap,
                   cntr, daddr, btable, pin_low, enabled, nalloc>>

----------------------------------------------------------------------------
(* SpecAlloc: the allocation phase alone, any sequence of alloc_ep calls   *)
(* on a freshly constructed driver.                                        *)

\* A call made by the foreground while it is idle and running as one step:
\* the CPU's interrupt mask and the foreground's position do not move.
Whole == fg_pc = "idle" /\ UNCHANGED <<primask, fg_pc>>

AllocDirs == {"Out", "In"}
AllocTypes == {"Bulk", "Interrupt"}
AllocRequested == {-1, 129, 8}
AllocSizes == {64}
OversizeTypes == {"Bulk"}
Oversize == 1025

AllocCall ==
    /\ nalloc < MaxAllocCalls
    /\ \E d \in AllocDirs, a \in AllocRequested, t \in AllocTypes, n \in AllocSizes :
          alloc_ep(d, a, t, n)
    /\ nalloc' = nalloc + 1
    /\ Whole

\* A packet size beyond the receive-size encoding (OUT) and beyond the arena (IN).
AllocOversize ==
    /\ nalloc < MaxAllocCalls
    /\ \E d \in AllocDirs, t \in OversizeTypes : alloc_ep(d, -1, t, Oversize)
    /\ nalloc' = nalloc + 1
    /\ Whole

NextAlloc == AllocCall \/ AllocOversize

SpecAlloc == Init /\ [][NextAlloc]_vars

----------------------------------------------------------------------------
(* SpecFill: sequences of alloc_ep calls without a requested address in    *)
(* which no two calls can share a slot: every type is used with one        *)
(* direction only.                                                         *)

FillTypes == {"Bulk", "Interrupt"}
FillDir(t) == IF t = "Bulk" THEN "Out" ELSE "In"
FillSizes == {32, 128}

FillCall ==
    /\ nalloc < MaxFillCalls
    /\ \E t \in FillTypes, n \in FillSizes : alloc_ep(FillDir(t), -1, t, n)
    /\ nalloc' = nalloc + 1
    /\ Whole

NextFill == FillCall

SpecFill == Init /\ [][NextFill]_vars

----------------------------------------------------------------------------
(* The driver in use: the stack above allocates its endpoints, enables the *)
(* bus and then calls the driver while the peripheral raises events.       *)

\* The endpoints the stack allocates, in order: control endpoint 0 in both
\* directions and a bulk OUT endpoint.
SetupSeq == << <<"Out", 0, "Control", 8>>,
               <<"In", 128, "Control", 8>>,
               <<"Out", -1, "Bulk", 64>> >>

Addresses == {0, 128, 1}
BufLens == {8, 64}
RxLens == {0, 9, 64}
WriteLens == {8}
DeviceAddresses == {5}

SetupCall ==
    /\ ~enabled
    /\ nalloc < Len(SetupSeq)
    /\ LET c == SetupSeq[nalloc + 1] IN alloc_ep(c[1], c[2], c[3], c[4])
    /\ nalloc' = nalloc + 1
    /\ Whole

EnableReset == ~enabled /\ ~reset_cap /\ enable_reset
    /\ Whole

Enable == ~enabled /\ enable
    /\ Whole

Reset == enabled /\ reset
    /\ Whole

SetDeviceAddress == enabled /\ \E a \in DeviceAddresses : set_device_address(a)
    /\ Whole

Poll == enabled /\ \E dp \in BOOLEAN, dm \in BOOLEAN : poll(dp, dm)
    /\ Whole

Write == enabled /\ \E a \in Addresses, n \in WriteLens : write(a, n)
    /\ Whole

Read == enabled /\ \E a \in Addresses, n \in BufLens : read(a, n)
    /\ Whole

StallEp == enabled /\ \E a \in Addresses : stall(a)
    /\ Whole

UnstallEp == enabled /\ \E a \in Addresses : unstall(a)
    /\ Whole

Suspend == enabled /\ suspend
    /\ Whole

Resume == enabled /\ resume
    /\ Whole

ForceReset == force_reset
    /\ Whole

HwWakeup == HwInterrupt("wkup")
    /\ Whole

HwReset == HwInterrupt("reset")
    /\ Whole

HwSuspend == HwInterrupt("susp")
    /\ Whole

HwRx == \E i \in Indices, n \in RxLens, st \in BOOLEAN : HwReceive(i, n, st)
    /\ Whole

HwTx == \E i \in Indices : HwTransmit(i)
    /\ Whole

\* Data transfers: endpoint status, packets and their completion flags.
NextData ==
    \/ SetupCall \/ Enable \/ Reset \/ Poll \/ Write \/ Read
    \/ StallEp \/ UnstallEp \/ HwRx \/ HwTx

SpecData == Init /\ [][NextData]_vars

\* Event decoding: every source of an interrupt-status bit.
NextPoll ==
    \/ SetupCall \/ Enable \/ Reset \/ Poll \/ Write \/ Read
    \/ HwWakeup \/ HwReset \/ HwSuspend \/ HwRx \/ HwTx

SpecPoll == Init /\ [][NextPoll]_vars

\* Bus reset: the register states a reset() call can meet.
NextReset ==
    \/ SetupCall \/ Enable \/ Reset \/ SetDeviceAddress \/ StallEp \/ Write
    \/ HwReset \/ HwRx \/ HwTx

SpecReset == Init /\ [][NextReset]_vars

\* Device state: power, address, suspend and the forced reset.
NextDevice ==
    \/ SetupCall \/ EnableReset \/ Enable \/ Reset \/ SetDeviceAddress \/ Poll
    \/ Suspend \/ Resume \/ ForceReset \/ HwWakeup \/ HwReset \/ HwSuspend

SpecDevice == Init /\ [][NextDevice]_vars

\* Address checking: write and read called with every kind of endpoint
\* address, well-formed or not.
AnyAddresses == {0, 1, 2, 8, 127, 128, 129, 136, 255}

WriteAny == enabled /\ \E a \in AnyAddresses, n \in WriteLens : write(a, n)
    /\ Whole

ReadAny == enabled /\ \E a \in AnyAddresses, n \in BufLens : read(a, n)
    /\ Whole

NextAddr ==
    \/ SetupCall \/ Enable \/ Reset \/ WriteAny \/ ReadAny \/ HwRx \/ HwTx

SpecAddr == Init /\ [][NextAddr]_vars

\* Stalled endpoints: every call that may meet a stalled direction, on the
\* IN direction of endpoint 0 and the OUT direction of endpoint 1.
StallAddresses == {128, 1}

StallDir == enabled /\ \E a \in StallAddresses : stall(a)
    /\ Whole

UnstallDir == enabled /\ \E a \in StallAddresses : unstall(a)
    /\ Whole

WriteDir == enabled /\ \E a \in StallAddresses, n \in WriteLens : write(a, n)
    /\ Whole

ReadDir == enabled /\ \E a \in StallAddresses : read(a, 64)
    /\ Whole

HwRxBulk == HwReceive(1, 9, FALSE)
    /\ Whole

NextStall ==
    \/ SetupCall \/ Enable \/ Reset \/ SetDeviceAddress \/ Poll
    \/ WriteDir \/ ReadDir \/ StallDir \/ UnstallDir \/ Suspend \/ Resume
    \/ HwRxBulk \/ HwTx

SpecStall == Init /\ [][NextStall]_vars

\* Packet memory: write called with byte slices up to and beyond the
\* maximum packet size of the endpoint.
SliceLens == {0, 7, 8, 16}

WriteSlice == enabled /\ \E a \in Addresses, n \in SliceLens : write(a, n)
    /\ Whole

NextMem ==
    \/ SetupCall \/ Enable \/ Reset \/ WriteSlice \/ Read \/ HwRx \/ HwTx

SpecMem == Init /\ [][NextMem]_vars

----------------------------------------------------------------------------
(* SpecIrq: the two execution contexts.  The foreground calls the driver   *)
(* operation by operation; a call first enters interrupt::free where the   *)
(* operation has one, then runs its body.  The interrupt handler calls     *)
(* poll whenever the CPU has interrupts enabled and the powered peripheral *)
(* has a status bit latched.                                               *)

in_critical_section_never(op) == FALSE

\* The operations whose body is the closure of an interrupt::free call.
in_critical_section(op) ==
    op \in {"reset", "set_device_address", "poll", "write", "read", "stall",
            "unstall", "suspend", "resume", "force_reset"}

DriverOps == {"alloc_ep", "enable", "reset", "set_device_address", "poll",
              "write", "read", "stall", "unstall", "suspend", "resume",
              "force_reset"}

\* The addresses the foreground uses in this specification.
IrqInAddress == 128
IrqOutAddress == 0

\* The foreground calls an operation: on entry interrupt::free, if the
\* operation has it, disables the interrupts.
FgCall ==
    /\ fg_pc = "idle"
    /\ \E op \in DriverOps :
          /\ CASE op = "alloc_ep" -> ~enabled /\ nalloc < Len(SetupSeq)
               [] op = "enable" -> ~enabled
               [] OTHER -> enabled
          /\ fg_pc' = op
          /\ primask' = in_critical_section(op)
    /\ UNCHANGED <<endpoints, next_free_offset, descrs, max_endpoint, pma, reset_cap,
                   istr, cntr, daddr, btable, ep_regs, pin_low, enabled, nalloc,
                   in_flight, ret>>

\* The operation returns: interrupt::free, if any, restores the interrupts.
Return == fg_pc' = "idle" /\ primask' = FALSE

FgAllocEp ==
    /\ fg_pc = "alloc_ep"
    /\ LET c == SetupSeq[nalloc + 1] IN alloc_ep(c[1], c[2], c[3], c[4])
    /\ nalloc' = nalloc + 1
    /\ Return

\* enable() up to the startup delay: max_endpoint and CNTR.PDWN.
enable_power ==
    /\ fg_pc = "enable"
    /\ max_endpoint' = highest_allocated(endpoints)
    /\ cntr' = [cntr EXCEPT !.pdwn = FALSE]
    /\ fg_pc' = "enable_delay"
    /\ UNCHANGED <<endpoints, next_free_offset, descrs, pma, reset_cap, istr, daddr,
                   btable, ep_regs, pin_low, enabled, nalloc, in_flight, primask, ret>>

\* enable() after the delay: BTABLE and CNTR.FRES.
enable_btable ==
    /\ fg_pc = "enable_delay"
    /\ btable' = 0
    /\ cntr' = [cntr EXCEPT !.fres = FALSE]
    /\ fg_pc' = "enable_istr"
    /\ UNCHANGED <<endpoints, next_free_offset, descrs, max_endpoint, pma, reset_cap,
                   istr, daddr, ep_regs, pin_low, enabled, nalloc, in_flight,
                   primask, ret>>

\* The last statement of enable(): ISTR is cleared.
enable_istr ==
    /\ fg_pc = "enable_istr"
    /\ istr' = IstrClear
    /\ enabled' = TRUE
    /\ ret' = Ret("enable", -1, "Ok", 0, 0, NoMasks)
    /\ Return
    /\ UNCHANGED <<endpoints, next_free_offset, descrs, max_endpoint, pma, reset_cap,
                   cntr, daddr, btable, ep_regs, pin_low, nalloc, in_flight>>

FgReset == fg_pc = "reset" /\ reset /\ Return

FgSetDeviceAddress ==
    fg_pc = "set_device_address"
        /\ (\E a \in DeviceAddresses : set_device_address(a)) /\ Return

FgPoll == fg_pc = "poll" /\ (\E dp \in BOOLEAN, dm \in BOOLEAN : poll(dp, dm)) /\ Return

FgWrite == fg_pc = "write" /\ (\E n \in WriteLens : write(IrqInAddress, n)) /\ Return

FgRead == fg_pc = "read" /\ (\E n \in BufLens : read(IrqOutAddress, n)) /\ Return

FgStall == fg_pc = "stall" /\ stall(IrqInAddress) /\ Return

FgUnstall == fg_pc = "unstall" /\ unstall(IrqInAddress) /\ Return

FgSuspend == fg_pc = "suspend" /\ suspend /\ Return

FgResume == fg_pc = "resume" /\ resume /\ Return

FgForceReset == fg_pc = "force_reset" /\ force_reset /\ Return

\* The interrupt handler: it preempts the foreground when the interrupts are
\* enabled and calls poll.
Isr ==
    /\ ~primask
    /\ ~cntr.pdwn
    /\ istr.wkup \/ istr.reset \/ istr.susp \/ istr.ctr
    /\ \E dp \in BOOLEAN, dm \in BOOLEAN : poll(dp, dm)
    /\ UNCHANGED <<primask, fg_pc>>

\* The peripheral works whatever the CPU is doing.
IrqHwReset == HwInterrupt("reset") /\ UNCHANGED <<primask, fg_pc>>

IrqHwTx == (\E i \in Indices : HwTransmit(i)) /\ UNCHANGED <<primask, fg_pc>>

NextIrq ==
    \/ FgCall \/ FgAllocEp \/ enable_power \/ enable_btable \/ enable_istr
    \/ FgReset \/ FgSetDeviceAddress \/ FgPoll \/ FgWrite \/ FgRead
    \/ FgStall \/ FgUnstall \/ FgSuspend \/ FgResume \/ FgForceReset
    \/ EnableReset \/ Isr \/ IrqHwReset \/ IrqHwTx

SpecIrq == Init /\ [][NextIrq]_vars

\* Every call and every event.
Next ==
    \/ SetupCall \/ EnableReset \/ Enable \/ Reset \/ SetDeviceAddress \/ Poll
    \/ Write \/ Read \/ StallEp \/ UnstallEp \/ Suspend \/ Resume \/ ForceReset
    \/ HwWakeup \/ HwReset \/ HwSuspend \/ HwRx \/ HwTx

Spec == Init /\ [][Next]_vars

----------------------------------------------------------------------------
(* Properties of alloc_ep.                                                 *)

Claimed(ep, ep_dir) == IF ep_dir = "Out" THEN ep.out_valid ELSE ep.in_valid

\* The slots a call without a requested address may use.
Candidates(eps, ep_dir, ep_type) ==
    {i \in 1 .. (NUM_ENDPOINTS - 1) :
        \/ eps[i].ep_type = None
        \/ eps[i].ep_type = ep_type /\ ~Claimed(eps[i], ep_dir)}

Lowest(S) == CHOOSE i \in S : \A j \in S : i <= j

\* The packet buffer of the call can be encoded and fits what is left of the arena.
SpaceAvailable(free, ep_dir, max_packet_size) ==
    IF ep_dir = "Out"
    THEN /\ calculate_count_rx(max_packet_size).ok
         /\ pm_alloc(free, calculate_count_rx(max_packet_size).size).ok
    ELSE pm_alloc(free, max_packet_size).ok

AllocStep == ret'.op = "alloc_ep" /\ nalloc' = nalloc + 1

\* C1: alloc_ep without a requested address, with arena space available,
\* returns the lowest index i in 1..N-1 whose slot is untyped or has the
\* requested type with the requested direction unclaimed, combined with the
\* direction bit, and never index 0; on a fresh driver (Out, none, Bulk, 64)
\* returns 0x01 and a following (In, none, Bulk, 64) returns 0x81.
C1_LowestCompatibleIndex ==
    [][(AllocStep /\ ret'.arg = -1) =>
         LET cand == Candidates(endpoints, ret'.dir, ret'.ty)
             space == SpaceAvailable(next_free_offset, ret'.dir, ret'.aux)
         IN /\ (cand # {} /\ space) =>
                 /\ ret'.res = "Ok"
                 /\ ret'.val = Lowest(cand) + DirBit(ret'.dir)
            /\ ret'.res = "Ok" =>
                 /\ cand # {} /\ space
                 /\ ret'.val % 128 # 0
                 /\ Claimed(endpoints'[ret'.val % 128], ret'.dir)
                 /\ endpoints'[ret'.val % 128].ep_type = ret'.ty
            /\ (nalloc = 0 /\ ret'.dir = "Out" /\ ret'.ty = "Bulk" /\ ret'.aux = 64)
                 => ret'.res = "Ok" /\ ret'.val = 1
            /\ (/\ nalloc = 1 /\ ret.res = "Ok" /\ ret.val = 1 /\ ret.ty = "Bulk"
                /\ ret'.dir = "In" /\ ret'.ty = "Bulk" /\ ret'.aux = 64)
                 => ret'.res = "Ok" /\ ret'.val = 129
      ]_vars

\* A call without a requested address skipped a slot of another type and
\* shared the next one: index 2, direction IN, OUT already claimed there.
C1_Witness ==
    /\ ret.op = "alloc_ep" /\ ret.arg = -1 /\ ret.res = "Ok" /\ ret.val = 130
    /\ endpoints[1].ep_type # ret.ty
    /\ endpoints[2].out_valid

\* C2: alloc_ep with a requested address whose slot has a different type, or
\* has the requested direction claimed, fails with EndpointTaken and claims
\* no direction at any index.
C2_PinnedConflictTaken ==
    [][(AllocStep /\ ret'.arg # -1 /\ ret'.arg % 128 < NUM_ENDPOINTS) =>
         LET i == ret'.arg % 128
             conflict ==
                 \/ endpoints[i].ep_type \notin {None, ret'.ty}
                 \/ Claimed(endpoints[i], ret'.dir)
         IN /\ conflict =>
                 /\ ret'.res = "EndpointTaken"
                 /\ \A j \in Indices :
                       /\ endpoints'[j].out_valid = endpoints[j].out_valid
                       /\ endpoints'[j].in_valid = endpoints[j].in_valid
                 /\ UNCHANGED <<next_free_offset, descrs>>
            /\ ret'.res = "Ok" => ret'.val = i + DirBit(ret'.dir)
      ]_vars

\* A request for index 1 (given as 0x81) was refused although a later slot
\* was still untyped.
C2_Witness ==
    /\ ret.op = "alloc_ep" /\ ret.arg = 129 /\ ret.res = "EndpointTaken"
    /\ endpoints[1].ep_type # None
    /\ endpoints[2].ep_type = None

\* Number of slots with a direction allocated.
ClaimedSlots == Cardinality({i \in Indices : endpoints[i].out_valid \/ endpoints[i].in_valid})

\* A slot among 1..N-1 has no direction allocated.
SlotsRemain == \E i \in 1 .. (NUM_ENDPOINTS - 1) :
                  ~endpoints[i].out_valid /\ ~endpoints[i].in_valid

\* C3 as stated: in a sequence of calls no two of which can share a slot,
\* every call succeeds while hardware slots remain and the first call beyond
\* them fails with EndpointOverflow.
C3_SucceedsWhileSlotsRemain ==
    [][AllocStep =>
         IF SlotsRemain THEN ret'.res = "Ok" ELSE ret'.res = "EndpointOverflow"
      ]_vars

\* C3 as amended: when every call of such a sequence passes no requested
\* address and its buffer fits the receive-size encoding and the packet
\* memory left, the first N-1 calls succeed at the indices 1..N-1 in order
\* and the next call fails with EndpointOverflow.
C3_FillThenOverflow ==
    [][(AllocStep /\ ret'.arg = -1 /\ ClaimedSlots = nalloc
          /\ SpaceAvailable(next_free_offset, ret'.dir, ret'.aux)) =>
         IF nalloc < NUM_ENDPOINTS - 1
         THEN ret'.res = "Ok" /\ ret'.val = (nalloc + 1) + DirBit(ret'.dir)
         ELSE ret'.res = "EndpointOverflow" /\ UNCHANGED <<endpoints, next_free_offset, descrs>>
      ]_vars

\* Seven calls took the slots 1..7 and the eighth, whose buffer would still
\* fit the packet memory, failed with EndpointOverflow.
C3_Witness ==
    /\ nalloc = NUM_ENDPOINTS
    /\ ClaimedSlots = NUM_ENDPOINTS - 1
    /\ ret.op = "alloc_ep" /\ ret.res = "EndpointOverflow"
    /\ SpaceAvailable(next_free_offset, ret.dir, ret.aux)

----------------------------------------------------------------------------
(* Properties of poll.                                                     *)

PollStep == ret'.op = "poll"

PollResults == {"Resume", "Reset", "Suspend", "Data", "None"}

\* C4: poll returns exactly one event, by the fixed priority wakeup, reset,
\* suspend, transfer-complete, for every combination of the four status
\* bits: the wakeup-derived outcome (Resume or Suspend, by the line state) if
\* the wakeup bit is set, else Reset, else Suspend, else Data, else None; a
\* status with wakeup and reset both set never yields Reset.
C4_PollPriority ==
    [][PollStep =>
         /\ ret'.res \in PollResults
         /\ istr.wkup =>
              /\ ret'.res \in {"Resume", "Suspend"}
              /\ ret'.res = "Resume" <=> ret'.aux < 2
         /\ (~istr.wkup /\ istr.reset) => ret'.res = "Reset"
         /\ (~istr.wkup /\ ~istr.reset /\ istr.susp) => ret'.res = "Suspend"
         /\ (~istr.wkup /\ ~istr.reset /\ ~istr.susp /\ istr.ctr) => ret'.res = "Data"
         /\ (~istr.wkup /\ ~istr.reset /\ ~istr.susp /\ ~istr.ctr) => ret'.res = "None"
         /\ (istr.wkup /\ istr.reset) => ret'.res # "Reset"
      ]_vars

\* poll has just handled the wakeup bit of a status in which the reset,
\* suspend and transfer-complete bits were set as well.
C4_Witness ==
    /\ ret.op = "poll" /\ ret.res = "Resume"
    /\ ~istr.wkup /\ istr.reset /\ istr.susp /\ istr.ctr

\* The highest index with a direction allocated (0 when there is none).
HighestAllocatedIndex ==
    LET used == {i \in Indices : endpoints[i].out_valid \/ endpoints[i].in_valid}
    IN IF used = {} THEN 0 ELSE CHOOSE i \in used : \A j \in used : j <= i

\* C5: when poll returns Data, for every index i up to the highest allocated
\* index bit i of ep_out is set exactly when CTR_RX of register i was set, bit
\* i of ep_setup exactly when CTR_RX and SETUP were set, bit i of
\* ep_in_complete exactly when CTR_TX was set; no bit above the highest
\* allocated index is set and ep_setup is a subset of ep_out.
C5_DataMasks ==
    [][(PollStep /\ ret'.res = "Data") =>
         LET m == ret'.masks
         IN /\ \A i \in Indices :
                 IF i <= HighestAllocatedIndex
                 THEN /\ Bit(m.ep_out, i) = 1 <=> ep_regs[i].ctr_rx
                      /\ Bit(m.ep_setup, i) = 1 <=> (ep_regs[i].ctr_rx /\ ep_regs[i].setup)
                      /\ Bit(m.ep_in_complete, i) = 1 <=> ep_regs[i].ctr_tx
                 ELSE /\ Bit(m.ep_out, i) = 0
                      /\ Bit(m.ep_setup, i) = 0
                      /\ Bit(m.ep_in_complete, i) = 0
            /\ \A i \in Indices : Bit(m.ep_setup, i) = 1 => Bit(m.ep_out, i) = 1
            /\ m.ep_out < Pow2(NUM_ENDPOINTS)
            /\ m.ep_setup < Pow2(NUM_ENDPOINTS)
            /\ m.ep_in_complete < Pow2(NUM_ENDPOINTS)
      ]_vars

\* A Data event reporting a SETUP packet on endpoint 0, a packet on endpoint
\* 1 and a completed transmission on endpoint 0.
C5_Witness ==
    /\ ret.op = "poll" /\ ret.res = "Data"
    /\ ret.masks = [ep_out |-> 3, ep_in_complete |-> 1, ep_setup |-> 1]

----------------------------------------------------------------------------
(* Properties of write and read.                                           *)

\* A write() call that passed the address checks.
WriteStep == ret'.op = "write" /\ ret'.arg >= 128 /\ ret'.arg % 128 < NUM_ENDPOINTS

OnlyRetChanged ==
    UNCHANGED <<endpoints, next_free_offset, descrs, max_endpoint, pma, reset_cap,
                istr, cntr, daddr, btable, ep_regs, pin_low, enabled>>

\* What write() does by the transmit status it finds.
WriteByStatus ==
    WriteStep =>
       LET ep == ret'.arg % 128
       IN /\ ep_regs[ep].stat_tx = Valid =>
               ret'.res = "Busy" /\ OnlyRetChanged
          /\ ep_regs[ep].stat_tx \notin {Valid, Disabled} =>
               /\ ret'.res = "Ok" /\ ret'.val = ret'.aux
               /\ descrs'[ep].count_tx = ret'.aux
               /\ ep_regs'[ep].stat_tx = Valid
          /\ (ret.op = "write" /\ ret.res = "Ok" /\ ret.arg = ret'.arg) =>
               ret'.res = "Busy"

\* C6 as stated: write on a Valid endpoint fails with Busy and changes
\* nothing; on a status neither Valid nor Disabled it records the byte count,
\* sets the status to Valid and returns the byte count; and after a
\* successful write every further write to the (allocated) endpoint returns
\* Busy until the host has taken the packet.
C6_BusyUntilHostConsumes ==
    [][/\ WriteByStatus
       /\ (/\ WriteStep
           /\ endpoints[ret'.arg % 128].in_valid
           /\ ret'.arg % 128 \in in_flight) => ret'.res = "Busy"
      ]_vars

\* C6 as amended: the same, with "until the host consumes the packet"
\* replaced by "for as long as the transmit status stays Valid": the status
\* leaves Valid when the host takes the packet and also when the driver's
\* own stall() or reset() rewrites it, after which write succeeds again.
C6_BusyWhileValid ==
    [][/\ WriteByStatus
       /\ \A i \in Indices :
             (ep_regs[i].stat_tx = Valid /\ ep_regs'[i].stat_tx # Valid) =>
                 \/ ret'.op = "hw" /\ ret'.res = "tx" /\ ret'.arg = i + 128
                 \/ ret'.op = "stall" /\ ret'.arg = i + 128
                 \/ ret'.op = "reset"
      ]_vars

\* A write was refused with Busy right after a successful write to the same
\* endpoint.
C6_Witness ==
    /\ ret.op = "write" /\ ret.res = "Busy" /\ ret.arg = 128
    /\ ep_regs[0].stat_tx = Valid /\ descrs[0].count_tx = 8
    /\ 0 \in in_flight

\* A read() call that reached the comparison of the received count with the
\* buffer length: OUT address in range, status not Disabled, CTR_RX set.
ReadPending ==
    /\ ret'.op = "read" /\ ret'.arg < NUM_ENDPOINTS
    /\ ep_regs[ret'.arg].stat_rx # Disabled
    /\ ep_regs[ret'.arg].ctr_rx

\* C7: read copies no more bytes than the buffer holds and returns
\* BufferOverflow exactly when the number of bytes the hardware received (the
\* ten-bit count of COUNT_RX) is greater than the buffer length.
C7_OverflowIffTooLong ==
    [][ReadPending =>
         /\ ret'.res = "BufferOverflow"
              <=> rx_count_full(descrs[ret'.arg].count_rx) > ret'.aux
         /\ ret'.res = "Ok" => ret'.val <= ret'.aux
      ]_vars

\* A read() call on an OUT endpoint in range whose status is not Disabled.
ReadStep ==
    /\ ret'.op = "read" /\ ret'.arg < NUM_ENDPOINTS
    /\ ep_regs[ret'.arg].stat_rx # Disabled

\* C8: read fails with NoData whenever CTR_RX is not set; a successful read
\* clears CTR_RX and sets the receive status to Valid; CTR_RX is raised by the
\* peripheral alone, so a second read with no packet received in between
\* returns NoData.
C8_ReadAtMostOnce ==
    [][/\ (ReadStep /\ ~ep_regs[ret'.arg].ctr_rx) =>
             ret'.res = "NoData" /\ OnlyRetChanged
       /\ (ReadStep /\ ret'.res = "Ok") =>
             /\ ep_regs[ret'.arg].ctr_rx
             /\ ~ep_regs'[ret'.arg].ctr_rx
             /\ ep_regs'[ret'.arg].stat_rx = Valid
       /\ (ReadStep /\ ret.op = "read" /\ ret.res = "Ok" /\ ret.arg = ret'.arg) =>
             ret'.res = "NoData"
       /\ \A i \in Indices :
             (~ep_regs[i].ctr_rx /\ ep_regs'[i].ctr_rx) =>
                 ret'.op = "hw" /\ ret'.res = "rx" /\ ret'.arg = i
      ]_vars

\* A second read of endpoint 1, right after a successful one, found no data.
C8_Witness ==
    /\ ret.op = "read" /\ ret.res = "NoData" /\ ret.arg = 1
    /\ ep_regs[1].stat_rx = Valid /\ ~ep_regs[1].ctr_rx
    /\ rx_count_full(descrs[1].count_rx) = 9

----------------------------------------------------------------------------
(* Properties of stall and unstall.                                        *)

ReadyStatus(ep) == IF ep >= 128 THEN Nak ELSE Valid

UnstallAfterStall ==
    ret'.op = "unstall" /\ ret.op = "stall" /\ ret.arg = ret'.arg

\* The direction an endpoint address names has been allocated.
DirAllocated(ep) ==
    IF ep >= 128 THEN endpoints[ep % 128].in_valid ELSE endpoints[ep % 128].out_valid

\* C9 as stated: stall followed by unstall on the same address restores the
\* status (Nak or Valid) the allocated direction had before the stall,
\* whichever it was; unstall on a direction that is not stalled changes
\* nothing.
C9_StallUnstallRestores ==
    [][/\ (UnstallAfterStall /\ DirAllocated(ret'.arg) /\ ret.aux \in {Nak, Valid}) =>
             DirStatus(ep_regs', ret'.arg) = ret.aux
       /\ (ret'.op = "unstall" /\ DirStatus(ep_regs, ret'.arg) # Stall) =>
             OnlyRetChanged
      ]_vars

\* C9 as amended: stall followed by unstall on the same address leaves the
\* direction in its ready status, Valid for OUT and Nak for IN, whatever the
\* status before the stall (so the pre-stall status is restored only when it
\* was that ready status); unstall on a direction that is not stalled changes
\* nothing.
C9_StallUnstallReady ==
    [][/\ ret'.op = "stall" => DirStatus(ep_regs', ret'.arg) = Stall
       /\ UnstallAfterStall =>
             DirStatus(ep_regs', ret'.arg) = ReadyStatus(ret'.arg)
       /\ (ret'.op = "unstall" /\ DirStatus(ep_regs, ret'.arg) # Stall) =>
             OnlyRetChanged
       /\ (ret'.op \in {"stall", "unstall"}) =>
             \A i \in Indices :
                /\ i # ret'.arg % 128 => ep_regs'[i] = ep_regs[i]
                /\ ret'.arg >= 128 => ep_regs'[i].stat_rx = ep_regs[i].stat_rx
                /\ ret'.arg < 128 => ep_regs'[i].stat_tx = ep_regs[i].stat_tx
      ]_vars

\* unstall has just brought the IN direction of endpoint 0 back to Nak while
\* the packet written before the stall was still waiting for the host.
C9_Witness ==
    /\ ret.op = "unstall" /\ ret.arg = 128 /\ ret.aux = Stall
    /\ ep_regs[0].stat_tx = Nak
    /\ 0 \in in_flight

----------------------------------------------------------------------------
(* Properties of reset.                                                    *)

\* C10: reset is idempotent: a second reset right after a first one changes
\* no endpoint register, nor ISTR, nor DADDR; after a reset every typed slot
\* carries its type and index, the receive status is Valid where OUT is
\* allocated, the transmit status Nak where IN is allocated, ISTR is clear and
\* DADDR has the enable bit set and address 0.
C10_ResetIdempotent ==
    [][ret'.op = "reset" =>
         /\ istr' = IstrClear
         /\ daddr' = [ef |-> TRUE, add |-> 0]
         /\ \A i \in Indices :
               IF endpoints[i].ep_type = None
               THEN ep_regs'[i] = ep_regs[i]
               ELSE /\ ep_regs'[i].ep_type = endpoints[i].ep_type
                    /\ ep_regs'[i].ea = i
                    /\ endpoints[i].out_valid => ep_regs'[i].stat_rx = Valid
                    /\ endpoints[i].in_valid => ep_regs'[i].stat_tx = Nak
         /\ ret.op = "reset" => UNCHANGED <<ep_regs, istr, daddr>>
      ]_vars

\* A reset, called with a stalled and an armed direction, a pending packet,
\* the reset bit latched and a device address set, has brought the registers
\* to the state above.
C10_Witness ==
    /\ ret.op = "reset"
    /\ endpoints[0].out_valid /\ endpoints[0].in_valid /\ endpoints[1].out_valid
    /\ ep_regs[0].stat_rx = Valid /\ ep_regs[0].stat_tx = Nak
    /\ ep_regs[1].stat_rx = Valid /\ ep_regs[1].ctr_rx
    /\ 0 \in in_flight
    /\ daddr = [ef |-> TRUE, add |-> 0]

----------------------------------------------------------------------------
(* Properties of the address checks of write and read.                     *)

\* C11: write returns InvalidEndpoint for every address whose direction bit
\* is clear, whose index is out of range or whose transmit status is
\* Disabled; read returns InvalidEndpoint for every address whose direction
\* bit is set, whose index is out of range or whose receive status is
\* Disabled; in each of these cases no register, no descriptor and no byte of
\* packet memory changes.
C11_InvalidEndpointNoEffect ==
    [][/\ (/\ ret'.op = "write"
           /\ \/ ret'.arg < 128
              \/ ret'.arg % 128 >= NUM_ENDPOINTS
              \/ ep_regs[ret'.arg % 128].stat_tx = Disabled) =>
             ret'.res = "InvalidEndpoint" /\ OnlyRetChanged
       /\ (/\ ret'.op = "read"
           /\ \/ ret'.arg >= 128
              \/ ret'.arg >= NUM_ENDPOINTS
              \/ ep_regs[ret'.arg].stat_rx = Disabled) =>
             ret'.res = "InvalidEndpoint" /\ OnlyRetChanged
      ]_vars

\* After a bus reset, a write to the IN address of endpoint 1, whose IN
\* direction was never allocated, was refused, while a packet waits in the
\* OUT direction of the same endpoint and one is armed on endpoint 0.
C11_Witness ==
    /\ ret.op = "write" /\ ret.arg = 129 /\ ret.res = "InvalidEndpoint"
    /\ ep_regs[1].stat_tx = Disabled
    /\ ep_regs[1].ctr_rx
    /\ ep_regs[0].stat_tx = Valid /\ pma # {}

----------------------------------------------------------------------------
(* Properties of the wakeup decoding and of force_reset.                   *)

\* C13: when poll handles a set wakeup bit it returns Resume if the D+
\* line-state bit is low, for both values of D-, and Suspend if D+ is high,
\* for both values of D-; it returns no other event for a set wakeup bit.
\* (ret.aux is the line state 2 * D+ + D- that the call sampled.)
C13_WakeupDecoding ==
    [][(PollStep /\ istr.wkup) =>
         /\ ret'.aux \in {0, 1} => ret'.res = "Resume"
         /\ ret'.aux \in {2, 3} => ret'.res = "Suspend"
         /\ ret'.res \notin {"Reset", "Data", "None"}
         /\ ~istr'.wkup
      ]_vars

\* poll has answered a wakeup with D+ high and D- low by Suspend, the
\* suspend bit itself not being set.
C13_Witness ==
    /\ ret.op = "poll" /\ ret.res = "Suspend" /\ ret.aux = 2
    /\ ~istr.susp /\ ~istr.wkup

\* C14: force_reset fails with Unsupported and changes no register when the
\* reset capability was never configured; when it was configured it returns
\* Ok with the power-down bit as it was before the call and the endpoint
\* records, the packet-memory allocations and the buffer descriptors
\* unchanged.
C14_ForceResetFrame ==
    [][ret'.op = "force_reset" =>
         IF ~reset_cap
         THEN ret'.res = "Unsupported" /\ OnlyRetChanged
         ELSE /\ ret'.res = "Ok"
              /\ cntr'.pdwn = cntr.pdwn
              /\ pin_low'
              /\ UNCHANGED <<endpoints, next_free_offset, descrs, pma>>
      ]_vars

\* force_reset has succeeded on an enabled (powered) bus with endpoints
\* allocated: the pin is driven low and the power-down bit is clear again.
C14_Witness ==
    /\ ret.op = "force_reset" /\ ret.res = "Ok"
    /\ reset_cap /\ pin_low /\ enabled /\ ~cntr.pdwn
    /\ endpoints[0].in_valid /\ endpoints[1].out_valid

----------------------------------------------------------------------------
(* Further properties of read and of alloc_ep.                             *)

\* C15: for every OUT endpoint and every packet length from 0 up to the
\* endpoint's maximum packet size, a successful read returns exactly the
\* number of bytes the hardware received (the ten-bit count of COUNT_RX): the
\* masking of the count field never truncates the returned byte count.
C15_ReadReturnsReceivedCount ==
    [][(ReadStep /\ ret'.res = "Ok") =>
         ret'.val = rx_count_full(descrs[ret'.arg].count_rx)
      ]_vars

\* C16: over any sequence of alloc_ep calls, successful or failed, a slot's
\* type, once assigned, never changes; a direction flag, once set, is never
\* cleared; and a direction is claimed only by a successful call that
\* requested it with the slot's type, so a slot has both directions only if
\* both were requested with that type.
C16_TypeAndDirectionsStable ==
    [][AllocStep =>
         \A i \in Indices :
            /\ endpoints[i].ep_type # None =>
                  endpoints'[i].ep_type = endpoints[i].ep_type
            /\ endpoints[i].out_valid => endpoints'[i].out_valid
            /\ endpoints[i].in_valid => endpoints'[i].in_valid
            /\ \A d \in {"Out", "In"} :
                  (Claimed(endpoints'[i], d) /\ ~Claimed(endpoints[i], d)) =>
                      /\ ret'.res = "Ok"
                      /\ ret'.dir = d
                      /\ ret'.val = i + DirBit(d)
                      /\ ret'.ty = endpoints'[i].ep_type
                      /\ endpoints[i].ep_type \in {None, ret'.ty}
      ]_vars

\* Slot 1 carries both directions, the second of them just claimed by a call
\* of the slot's type, and slot 2 carries another type.
C16_Witness ==
    /\ ret.op = "alloc_ep" /\ ret.res = "Ok" /\ ret.val % 128 = 1
    /\ endpoints[1].out_valid /\ endpoints[1].in_valid
    /\ endpoints[1].ep_type = ret.ty
    /\ endpoints[2].ep_type \notin {None, ret.ty}
    /\ endpoints[2].out_valid

\* C18: a failed alloc_ep call (EndpointTaken, EndpointOverflow from slot
\* exhaustion, from the receive-size encoding or from the packet memory)
\* leaves the endpoint table, the arena and the buffer descriptors as they
\* were before the call; hence every slot with a type has a direction
\* allocated.
C18_FailedAllocNoEffect ==
    [][AllocStep =>
         /\ ret'.res # "Ok" => UNCHANGED <<endpoints, next_free_offset, descrs>>
         /\ \A i \in Indices :
               endpoints'[i].ep_type # None =>
                   endpoints'[i].out_valid \/ endpoints'[i].in_valid
      ]_vars

----------------------------------------------------------------------------
(* What poll clears.                                                       *)

\* Everything but ISTR, the endpoint registers and the call record.
PollFrame ==
    UNCHANGED <<endpoints, next_free_offset, descrs, max_endpoint, pma, reset_cap,
                cntr, daddr, btable, pin_low, enabled>>

\* C17: a poll call clears only the flags of the event it returns: the
\* wakeup, reset or suspend bit of ISTR for that event, or, for Data, CTR_TX
\* of the endpoints it reports in ep_in_complete.  Every other latched status
\* bit and every CTR_RX stays set, so with no hardware event in between the
\* next poll reports what is left by priority, a completed transmission is
\* reported by one poll only and a received packet by every Data poll until
\* read takes it.
C17_PollClearsOnlyItsEvent ==
    [][PollStep =>
         LET m == ret'.masks
         IN /\ PollFrame
            /\ istr.wkup =>
                 istr' = [istr EXCEPT !.wkup = FALSE] /\ ep_regs' = ep_regs
            /\ (~istr.wkup /\ ret'.res = "Reset") =>
                 istr' = [istr EXCEPT !.reset = FALSE] /\ ep_regs' = ep_regs
            /\ (~istr.wkup /\ ret'.res = "Suspend") =>
                 istr' = [istr EXCEPT !.susp = FALSE] /\ ep_regs' = ep_regs
            /\ ret'.res = "Data" =>
                 /\ istr' = istr
                 /\ \A i \in Indices :
                       ep_regs'[i] = IF Bit(m.ep_in_complete, i) = 1
                                     THEN [ep_regs[i] EXCEPT !.ctr_tx = FALSE]
                                     ELSE ep_regs[i]
            /\ ret'.res = "None" => istr' = istr /\ ep_regs' = ep_regs
            /\ \A i \in Indices : ep_regs'[i].ctr_rx = ep_regs[i].ctr_rx
            /\ ret.op = "poll" =>
                 /\ ret.res = "Reset" => ret'.res \in {"Suspend", "Data", "None"}
                 /\ ret.res \in {"Resume", "Suspend"} => ret'.res # "Resume"
                 /\ ret.res = "Data" => ret'.res \in {"Data", "None"}
                 /\ (ret.res = "Data" /\ ret'.res = "Data") =>
                      /\ m.ep_in_complete = 0
                      /\ m.ep_out = ret.masks.ep_out
                      /\ m.ep_setup = ret.masks.ep_setup
                 /\ ret.res = "None" => ret'.res = "None"
      ]_vars

\* poll has returned Reset and left the suspend and transfer-complete bits
\* latched, with a received packet and a completed transmission still
\* flagged on endpoint 0.
C17_Witness ==
    /\ ret.op = "poll" /\ ret.res = "Reset"
    /\ ~istr.wkup /\ ~istr.reset /\ istr.susp /\ istr.ctr
    /\ ep_regs[0].ctr_rx /\ ep_regs[0].ctr_tx

----------------------------------------------------------------------------
(* How long a stall lasts.                                                 *)

\* Every endpoint address with an index in range.
DirAddresses == Indices \cup {i + 128 : i \in Indices}

\* The allocated direction a is stalled.  (Stall is written by stall() alone.)
Stalled(a) == DirAllocated(a) /\ DirStatus(ep_regs, a) = Stall

\* C19 as stated: once stall has been called on a direction, its status
\* stays Stall through every poll, write, read, set_device_address, suspend
\* and resume call, until unstall or reset is called; write on a stalled IN
\* endpoint and read on a stalled OUT endpoint do not take it out of Stall.
C19_StallPersists ==
    [][\A a \in DirAddresses :
          (/\ Stalled(a)
           /\ ret'.op \in {"poll", "write", "read", "set_device_address",
                            "suspend", "resume"}) =>
              DirStatus(ep_regs', a) = Stall
      ]_vars

\* C19 as amended: the status of a stalled direction stays Stall through
\* every poll, set_device_address, suspend and resume call, through every
\* write or read of another address and through every write or read that
\* fails.  It leaves Stall by unstall and reset and also by a successful
\* transfer call: write on a stalled IN endpoint always succeeds and sets the
\* status to Valid, and read on a stalled OUT endpoint with a packet pending
\* that fits the buffer returns it and sets the status to Valid.
C19_StallUntilTransferCall ==
    [][\A a \in DirAddresses :
          Stalled(a) =>
             /\ ret'.op \in {"poll", "set_device_address", "suspend", "resume"} =>
                   DirStatus(ep_regs', a) = Stall
             /\ (ret'.op \in {"write", "read"}
                  /\ (ret'.arg # a \/ ret'.res # "Ok")) =>
                   DirStatus(ep_regs', a) = Stall
             /\ (ret'.op = "write" /\ ret'.arg = a /\ a >= 128) =>
                   ret'.res = "Ok" /\ DirStatus(ep_regs', a) = Valid
             /\ (/\ ret'.op = "read" /\ ret'.arg = a /\ a < 128
                 /\ ep_regs[a].ctr_rx
                 /\ rx_count(descrs[a].count_rx) <= ret'.aux) =>
                   ret'.res = "Ok" /\ DirStatus(ep_regs', a) = Valid
             /\ DirStatus(ep_regs', a) # Stall =>
                   \/ ret'.op = "reset"
                   \/ ret'.op \in {"unstall", "write", "read"} /\ ret'.arg = a
      ]_vars

\* Both stalled directions are still stalled after set_device_address was
\* called on the suspended device, a received packet pending on endpoint 1.
C19_Witness ==
    /\ ret.op = "set_device_address"
    /\ Stalled(128) /\ Stalled(1)
    /\ ep_regs[1].ctr_rx
    /\ cntr.fsusp

----------------------------------------------------------------------------
(* What write stores into the packet memory.                               *)

\* The offsets at which the allocated buffers start, and the end of the
\* allocated part of the arena.
AllocStarts ==
    {descrs[j].addr_tx : j \in {k \in Indices : endpoints[k].in_valid}}
        \cup {descrs[j].addr_rx : j \in {k \in Indices : endpoints[k].out_valid}}
        \cup {next_free_offset}

\* The transmit buffer of slot i: from its transmit address up to the next
\* allocation.
TxBuffer(i) ==
    LET above == {x \in AllocStarts : x > descrs[i].addr_tx}
    IN descrs[i].addr_tx .. (Lowest(above) - 1)

\* C20: a write to an IN endpoint modifies only bytes of packet memory inside
\* that endpoint's own transmit buffer, for every length of the byte slice;
\* it alters no other endpoint's buffer and does not reach the
\* buffer-descriptor table.
C20_WriteStaysInOwnBuffer ==
    [][(ret'.op = "write" /\ ret'.res = "Ok") =>
         /\ endpoints[ret'.arg % 128].in_valid
         /\ \A b \in pma' :
               (b \notin pma \/ b[2] = ret'.arg) =>
                   /\ b[1] \in TxBuffer(ret'.arg % 128)
                   /\ b[1] >= NUM_ENDPOINTS * DESCR_SIZE
         /\ \A b \in pma \ pma' : b[1] \in TxBuffer(ret'.arg % 128)
      ]_vars

----------------------------------------------------------------------------
(* The critical sections.                                                  *)

\* The foreground executes (part of) the body of the operation it called.
BodyStep == fg_pc # "idle" /\ fg_pc' # fg_pc

\* The interrupt handler runs its poll.
IsrStep == ret'.op = "poll" /\ fg_pc' = fg_pc

\* The positions of the foreground inside alloc_ep and enable.
ExclusiveOpPositions == {"alloc_ep", "enable", "enable_delay", "enable_istr"}

SharedOps == {"reset", "set_device_address", "poll", "write", "read", "stall",
              "unstall", "suspend", "resume", "force_reset"}

\* C12 as stated: every operation (alloc_ep, enable, reset,
\* set_device_address, poll, write, read, stall, unstall, suspend, resume,
\* force_reset) runs entirely with the interrupts disabled, so the steps of
\* an operation called by the foreground never interleave with an operation
\* called by the interrupt handler.
C12_AllInCriticalSection ==
    [][/\ BodyStep => primask
       /\ IsrStep => fg_pc = "idle"
      ]_vars

\* C12 as amended: the ten operations that take the driver by shared
\* reference (reset, set_device_address, poll, write, read, stall, unstall,
\* suspend, resume, force_reset) run their whole body with the interrupts
\* disabled and enable them again on return, so the handler never runs
\* between the call and the return of one of them; alloc_ep and enable, which
\* take the driver by exclusive reference, run with the interrupts enabled.
C12_SharedOpsInCriticalSection ==
    [][/\ BodyStep => (primask <=> fg_pc \in SharedOps)
       /\ (BodyStep /\ fg_pc \in SharedOps) => (fg_pc' = "idle" /\ ~primask')
       /\ (fg_pc \in SharedOps /\ fg_pc' = fg_pc) => ret'.op = "hw"
       /\ IsrStep => fg_pc \in {"idle"} \cup ExclusiveOpPositions
       /\ fg_pc' \in SharedOps => primask'
       /\ fg_pc' \notin SharedOps => ~primask'
      ]_vars

\* The foreground is inside the critical section of write, about to store a
\* packet, while the peripheral has latched a bus reset and a completed
\* transmission: the handler has to wait.
C12_Witness ==
    /\ fg_pc = "write" /\ primask
    /\ enabled /\ ~cntr.pdwn
    /\ istr.reset /\ istr.ctr
    /\ ep_regs[0].stat_tx = Nak /\ ep_regs[0].ctr_tx

====
